---- MODULE Spec2Model ----
(***************************************************************************)
(* CRUD-Atletica: the sale registration workflow (registrar_venda), the    *)
(* authorization workflow (autorizar_venda), the product and seller        *)
(* updates (atualizar_produto, atualizar_vendedor) and the removals of     *)
(* customers and products (deletar_cliente, deletar_produto), run by       *)
(* several console operators, each over its own connection, against one    *)
(* shared relational store.                                                *)
(*                                                                         *)
(* Monetary values are Decimal in the source; here a Decimal is the        *)
(* integer number of thousandths (Escala) of the currency unit, so that    *)
(* the 10% discount of a price given in cents is exact, as it is in        *)
(* Decimal arithmetic.                                                     *)
(***************************************************************************)
EXTENDS Integers, Sequences, FiniteSets, TLC

\* ------------------------------------------------------------------ bounds
MaxOperacoes == 3      \* handlers started from the menus in one run
MaxItens == 2          \* items added to carts in one run

\* ------------------------------------------------------- program constants
Escala == 1000                 \* thousandths: the unit of a Decimal value
DezPorCento == 100             \* Decimal('0.10')
NULL == -1                     \* SQL NULL in a numeric column

STATUS_VENDA ==
    [PENDENTE |-> "Pendente de autorização", AUTORIZADA |-> "Autorizada",
     CANCELADA |-> "Cancelada"]
FORMAS_PAGAMENTO == <<"Pix", "Dinheiro", "Boleto", "Cartão", "Berries">>

\* ------------------------------------------------------------ input domains
Operadores == {"op1", "op2"}
MatriculasDigitadas == {"c1", "c2", "c9"}
MatriculasVendedorDigitadas == {"v1", "v2", "v9"}
OpcoesPagamentoDigitadas == {0, 1}
IdsProdutoDigitados == {1, 2, 9}
QuantidadesDigitadas == {-1, 0, 1, 2}
QuantidadesDuasCaixas == {2}       \* the quantities typed when two operators run
IdsProdutoDuasCaixas == {1, 2}     \* the product ids typed when two operators run
PrecosDigitados == {7000}
IdsVendaDigitados == {1, 2}
IdsAtualizados == {1, 9}          \* the product ids typed in atualizar_produto
EmailsDigitados == {"e1", "e9"}   \* well-formed addresses: validar_email accepts them
NomesDigitados == {"camisa", "Caneca"}  \* validar_nome_produto accepts them
EmBranco == ""                    \* the answer that keeps the current value

\* the store as the program finds it
ClientesIniciais ==
    [m \in {"c1", "c2"} |->
        IF m = "c1" THEN [tem_desconto |-> TRUE, motivo |-> "Sócio", email |-> "e1"]
                    ELSE [tem_desconto |-> FALSE, motivo |-> "", email |-> "e2"]]
VendedoresIniciais == [m \in {"v1", "v2"} |-> [ativo |-> (m = "v1")]]
ProdutosIniciais ==
    [id \in {1, 2} |->
        IF id = 1 THEN [nome |-> "Camisa", quantidade |-> 3, preco |-> 10000]
                  ELSE [nome |-> "Boné", quantidade |-> 2, preco |-> 5000]]

VARIABLES
    produtos,          \* table produtos: id -> [nome, quantidade, preco]
    clientes,          \* table clientes: matricula -> eligibility attributes
    vendedores,        \* table vendedores: matricula -> [ativo]
    vendas,            \* table vendas: the row of sale id i is vendas[i]
    itens_venda,       \* table itens_venda
    vendedor_vendas,   \* table vendedor_vendas
    relogio,           \* CURRENT_TIMESTAMP of the store
    sessao,            \* per operator: position in its handler and its locals
    operacoes,         \* handlers started so far
    adicionados        \* items added to carts so far

vars == <<produtos, clientes, vendedores, vendas, itens_venda, vendedor_vendas,
          relogio, sessao, operacoes, adicionados>>

\* the committed content of the store, as one value
BD == [produtos |-> produtos, vendas |-> vendas, itens_venda |-> itens_venda,
       vendedor_vendas |-> vendedor_vendas]

\* ------------------------------------------------------------------ locals
None == [existe |-> FALSE, tem_desconto |-> FALSE, motivo |-> ""]
SemProduto == [id |-> 0, nome |-> "", quantidade |-> 0, preco |-> 0]
SemVendedor == [matricula |-> "", ativo |-> FALSE]
SemCliente == [email |-> "", eh_socio |-> FALSE]
SemResumo == [subtotal |-> 0, desconto |-> NULL, total |-> 0]

SessaoInicial ==
    [pc |-> "menu", matricula |-> "", desconto_info |-> None,
     forma_pagamento |-> "", matricula_vendedor |-> "", itens |-> <<>>,
     produto |-> SemProduto, vendedor |-> SemVendedor, cliente |-> SemCliente,
     email |-> "", nome |-> "", resumo |-> SemResumo, venda_id |-> 0, resultado |-> "", aviso |-> ""]

\* the handler returns to its menu after printing msg
Retornar(msg) == [SessaoInicial EXCEPT !.resultado = msg]

\* the handler prints msg and asks the same prompt again
Avisar(s, msg) == [s EXCEPT !.aviso = msg]

\* ------------------------------------------------------ validation, lookups
validar_quantidade(quantidade) == quantidade >= 0

buscar_produto_por_id(bd, id_produto) ==
    IF id_produto \in DOMAIN bd.produtos
    THEN [id |-> id_produto,
          nome |-> bd.produtos[id_produto].nome,
          quantidade |-> bd.produtos[id_produto].quantidade,
          preco |-> bd.produtos[id_produto].preco]
    ELSE SemProduto

buscar_vendedor_por_matricula(vds, matricula) ==
    IF matricula \in DOMAIN vds
    THEN [matricula |-> matricula, ativo |-> vds[matricula].ativo]
    ELSE SemVendedor

\* mutant: the stock is not compared with the quantity asked for
verificar_estoque_suficienteSemComparar(bd, id_produto, quantidade) ==
    id_produto \in DOMAIN bd.produtos

verificar_estoque_suficiente(bd, id_produto, quantidade) ==
    /\ id_produto \in DOMAIN bd.produtos
    /\ bd.produtos[id_produto].quantidade >= quantidade

\* the store's eligibility predicate for a customer row
verificar_desconto_bd(cli, matricula) ==
    IF matricula \in DOMAIN cli
    THEN [existe |-> TRUE, tem_desconto |-> cli[matricula].tem_desconto,
          motivo |-> cli[matricula].motivo]
    ELSE None

\* mutant: a lookup that raised is taken as a discount that applies
verificar_descontoPresumido(cli, matricula, erro) ==
    IF erro THEN [existe |-> TRUE, tem_desconto |-> TRUE, motivo |-> ""]
            ELSE verificar_desconto_bd(cli, matricula)

\* mutant: the discount is found only by the first handler started in the run
verificar_descontoUmaVez(cli, matricula, erro) ==
    IF erro THEN None
    ELSE IF operacoes > 1
    THEN [verificar_desconto_bd(cli, matricula) EXCEPT !.tem_desconto = FALSE]
    ELSE verificar_desconto_bd(cli, matricula)

\* erro: the lookup raised psycopg2.Error
verificar_desconto(cli, matricula, erro) ==
    IF erro THEN None ELSE verificar_desconto_bd(cli, matricula)

\* ------------------------------------------------------------------ totals
RECURSIVE SomaItens(_)
SomaItens(its) ==
    IF its = <<>> THEN 0
    ELSE Head(its).quantidade * Head(its).preco_unitario + SomaItens(Tail(its))

\* the product of two Decimal values
MulDecimal(a, b) == (a * b) \div Escala

TemDesconto(desconto_info) == desconto_info.existe /\ desconto_info.tem_desconto

CalcularDesconto(its, desconto_info) ==
    IF TemDesconto(desconto_info) THEN MulDecimal(SomaItens(its), DezPorCento) ELSE 0

\* mutant: the discount is taken off a total that already had it taken off
CalcularValorTotalDuasVezes(its, desconto_info) ==
    LET comDesconto == SomaItens(its) - CalcularDesconto(its, desconto_info)
    IN  IF TemDesconto(desconto_info)
        THEN comDesconto - MulDecimal(comDesconto, DezPorCento)
        ELSE comDesconto

CalcularValorTotal(its, desconto_info) ==
    SomaItens(its) - CalcularDesconto(its, desconto_info)

\* float(d) as handed to the store: the double nearest to a Decimal of at most
\* 15 significant digits is written back as the same decimal
ParaFloat(d) == d

\* -------------------------------------------------- statements of a commit
\* INSERT INTO vendas (...) VALUES (..., 'PENDENTE', ...) RETURNING id
InsertVenda(bd, s) ==
    [bd EXCEPT !.vendas = Append(@,
        [cliente_matricula |-> s.matricula,
         valor_total |-> ParaFloat(CalcularValorTotal(s.itens, s.desconto_info)),
         forma_pagamento |-> s.forma_pagamento,
         status |-> "PENDENTE",
         desconto_aplicado |-> TemDesconto(s.desconto_info),
         motivo_desconto |->
            IF TemDesconto(s.desconto_info) THEN s.desconto_info.motivo ELSE "",
         valor_desconto |->
            IF TemDesconto(s.desconto_info)
            THEN ParaFloat(CalcularDesconto(s.itens, s.desconto_info))
            ELSE NULL])]

\* mutant: the sale is persisted without its attribution row
InsertVendedorVendaSemLinha(bd, matricula_vendedor, venda_id) == bd

\* INSERT INTO vendedor_vendas (vendedor_matricula, id_venda)
InsertVendedorVenda(bd, matricula_vendedor, venda_id) ==
    [bd EXCEPT !.vendedor_vendas = Append(@,
        [vendedor_matricula |-> matricula_vendedor, id_venda |-> venda_id,
         data_autorizacao |-> NULL])]

\* mutant: the line item takes the catalog price at commit, not the cart's
InsertItemVendaPrecoAtual(bd, venda_id, item) ==
    [bd EXCEPT !.itens_venda = Append(@,
        [id_venda |-> venda_id, id_produto |-> item.id_produto,
         quantidade |-> item.quantidade,
         valor_unitario |->
            IF item.id_produto \in DOMAIN bd.produtos
            THEN bd.produtos[item.id_produto].preco
            ELSE ParaFloat(item.preco_unitario)])]

\* INSERT INTO itens_venda (id_venda, id_produto, quantidade, valor_unitario)
InsertItemVenda(bd, venda_id, item) ==
    [bd EXCEPT !.itens_venda = Append(@,
        [id_venda |-> venda_id, id_produto |-> item.id_produto,
         quantidade |-> item.quantidade,
         valor_unitario |-> ParaFloat(item.preco_unitario)])]

\* mutant: the UPDATE has no WHERE clause
UpdateEstoqueSemWhere(bd, item) ==
    [bd EXCEPT !.produtos =
        [p \in DOMAIN @ |-> [@[p] EXCEPT !.quantidade = @ - item.quantidade]]]

\* UPDATE produtos SET quantidade = quantidade - %s WHERE id = %s
UpdateEstoque(bd, item) ==
    IF item.id_produto \in DOMAIN bd.produtos
    THEN [bd EXCEPT !.produtos[item.id_produto].quantidade = @ - item.quantidade]
    ELSE bd

\* the first n statements of the loop over the cart: for each item its insert,
\* then its stock update
RECURSIVE EscreverItens(_, _, _, _)
EscreverItens(bd, venda_id, its, n) ==
    IF n = 0 \/ its = <<>> THEN bd
    ELSE LET inserido == InsertItemVenda(bd, venda_id, Head(its))
         IN  IF n = 1 THEN inserido
             ELSE EscreverItens(UpdateEstoque(inserido, Head(its)), venda_id,
                                Tail(its), n - 2)

\* the statements registrar_venda issues in its transaction
NumEscritasRegistro(s) == 2 + 2 * Len(s.itens)

\* the connection's view after the first n statements of registrar_venda
ExecutarRegistro(bd, s, n) ==
    IF n = 0 THEN bd
    ELSE LET venda_id == Len(bd.vendas) + 1
             comVenda == InsertVenda(bd, s)
         IN  IF n = 1 THEN comVenda
             ELSE EscreverItens(InsertVendedorVenda(comVenda, s.matricula_vendedor,
                                                    venda_id),
                                venda_id, s.itens, n - 2)

\* mutant: the statements run before the error stay in the store
RollbackParcial(antes, trabalho) == trabalho

\* conn.rollback(): the store keeps what was committed before the transaction
Rollback(antes, trabalho) == antes

\* a transaction of n statements in which statement number falha raises
\* psycopg2.Error (falha = 0: none does, and conn.commit() publishes them all)
Transacao(antes, completo, parcial, falha) ==
    IF falha = 0 THEN completo ELSE Rollback(antes, parcial)

\* mutant: the UPDATE has no WHERE clause
UpdateStatusSemWhere(bd, venda_id) ==
    [bd EXCEPT !.vendas =
        [i \in 1..Len(@) |-> [@[i] EXCEPT !.status = "AUTORIZADA"]]]

\* UPDATE vendas SET status = 'AUTORIZADA' WHERE id = %s
UpdateStatus(bd, venda_id) ==
    IF venda_id \in 1..Len(bd.vendas)
    THEN [bd EXCEPT !.vendas[venda_id].status = "AUTORIZADA"]
    ELSE bd

\* mutant: the timestamp UPDATE has no WHERE clause
UpdateDataAutorizacaoSemWhere(bd, venda_id, agora) ==
    [bd EXCEPT !.vendedor_vendas =
        [i \in 1..Len(@) |-> [@[i] EXCEPT !.data_autorizacao = agora]]]

\* UPDATE vendedor_vendas SET data_autorizacao = CURRENT_TIMESTAMP WHERE id_venda = %s
UpdateDataAutorizacao(bd, venda_id, agora) ==
    [bd EXCEPT !.vendedor_vendas =
        [i \in 1..Len(@) |->
            IF @[i].id_venda = venda_id
            THEN [@[i] EXCEPT !.data_autorizacao = agora]
            ELSE @[i]]]

\* the stock updates of the line items of sale venda_id
RECURSIVE BaixarLinhas(_, _, _)
BaixarLinhas(bd, linhas, venda_id) ==
    IF linhas = <<>> THEN bd
    ELSE BaixarLinhas(IF Head(linhas).id_venda = venda_id
                      THEN UpdateEstoque(bd, Head(linhas)) ELSE bd,
                      Tail(linhas), venda_id)

\* mutant: authorizing a sale takes its items off the stock once more
ExecutarAutorizacaoComBaixa(bd, venda_id, agora, n) ==
    IF n = 0 THEN bd
    ELSE IF n = 1 THEN UpdateStatus(bd, venda_id)
    ELSE BaixarLinhas(UpdateDataAutorizacao(UpdateStatus(bd, venda_id), venda_id, agora),
                      bd.itens_venda, venda_id)

\* mutant: the transaction of autorizar_venda has no timestamp UPDATE
ExecutarAutorizacaoSemCarimbo(bd, venda_id, agora, n) ==
    IF n = 0 THEN bd ELSE UpdateStatus(bd, venda_id)

\* the connection's view after the first n statements of autorizar_venda
ExecutarAutorizacao(bd, venda_id, agora, n) ==
    IF n = 0 THEN bd
    ELSE IF n = 1 THEN UpdateStatus(bd, venda_id)
    ELSE UpdateDataAutorizacao(UpdateStatus(bd, venda_id), venda_id, agora)

\* mutant: the update of a product also reprices its persisted line items
UpdateProdutoComRepreco(bd, id_produto, novo_nome, nova_quantidade, novo_preco) ==
    IF id_produto \in DOMAIN bd.produtos
    THEN [bd EXCEPT !.produtos[id_produto] =
                        [nome |-> novo_nome, quantidade |-> nova_quantidade,
                         preco |-> novo_preco],
                    !.itens_venda =
                        [k \in 1..Len(@) |->
                            IF @[k].id_produto = id_produto
                            THEN [@[k] EXCEPT !.valor_unitario = novo_preco]
                            ELSE @[k]]]
    ELSE bd

\* UPDATE produtos SET nome, quantidade = %s, preco = %s, ... WHERE id = %s
UpdateProduto(bd, id_produto, novo_nome, nova_quantidade, novo_preco) ==
    IF id_produto \in DOMAIN bd.produtos
    THEN [bd EXCEPT !.produtos[id_produto] =
            [nome |-> novo_nome, quantidade |-> nova_quantidade,
             preco |-> novo_preco]]
    ELSE bd

\* the store takes the value bd
Gravar(bd) ==
    /\ produtos' = bd.produtos
    /\ vendas' = bd.vendas
    /\ itens_venda' = bd.itens_venda
    /\ vendedor_vendas' = bd.vendedor_vendas

LojaInalterada == UNCHANGED <<produtos, vendas, itens_venda, vendedor_vendas, relogio>>

\* ------------------------------------------------------------------- state
Init ==
    /\ produtos = ProdutosIniciais
    /\ clientes = ClientesIniciais
    /\ vendedores = VendedoresIniciais
    /\ vendas = <<>>
    /\ itens_venda = <<>>
    /\ vendedor_vendas = <<>>
    /\ relogio = 0
    /\ sessao = [o \in Operadores |-> SessaoInicial]
    /\ operacoes = 0
    /\ adicionados = 0

Passo(o, nova) == sessao' = [sessao EXCEPT ![o] = nova]

\* ------------------------------------------------------------------- menus
\* menu_vendas options 1 and 4, menu_produtos options 1, 3 and 4, menu_vendedores
\* options 3 and 4, menu_clientes options 1, 3 and 4 (option 4 also of main.py)
Menu(o, handler) ==
    /\ sessao[o].pc = "menu"
    /\ operacoes < MaxOperacoes
    /\ operacoes' = operacoes + 1
    /\ Passo(o, [SessaoInicial EXCEPT !.pc =
            CASE handler = "registrar_venda" -> "rv_cliente"
              [] handler = "autorizar_venda" -> "av_id"
              [] handler = "atualizar_produto" -> "ap_id"
              [] handler = "atualizar_vendedor" -> "avd_id"
              [] handler = "deletar_cliente" -> "dc_id"
              [] handler = "main.deletar_cliente" -> "mdc_id"
              [] handler = "deletar_produto" -> "dp_id"
              [] handler = "criar_cliente" -> "cc_matricula"
              [] handler = "criar_produto" -> "cp_nome"
              [] handler = "deletar_vendedor" -> "dv_id"
              [] handler = "atualizar_cliente" -> "ac_id"])
    /\ LojaInalterada
    /\ UNCHANGED <<clientes, vendedores, adicionados>>

\* --------------------------------------------------------- registrar_venda
\* the customer prompt, the eligibility lookup, the payment prompt (an invalid
\* option is asked again) and the seller prompt; a lookup that fails and is not
\* tried again returns None, one that is tried again asks the same prompt
RegistrarInicio(o, matricula, erro, opcao, matricula_vendedor) ==
    /\ sessao[o].pc = "rv_cliente"
    /\ 1 <= opcao /\ opcao <= Len(FORMAS_PAGAMENTO)
    /\ Passo(o,
         IF matricula \notin DOMAIN clientes
         THEN Retornar("Cliente não encontrado!")
         ELSE IF matricula_vendedor \notin DOMAIN vendedores
         THEN Retornar("Vendedor não encontrado!")
         ELSE IF ~vendedores[matricula_vendedor].ativo
         THEN Retornar("Vendedor inativo! Não pode realizar vendas.")
         ELSE [sessao[o] EXCEPT
                 !.pc = "rv_produto",
                 !.matricula = matricula,
                 !.desconto_info = verificar_desconto(clientes, matricula, erro),
                 !.forma_pagamento = FORMAS_PAGAMENTO[opcao],
                 !.matricula_vendedor = matricula_vendedor])
    /\ LojaInalterada
    /\ UNCHANGED <<clientes, vendedores, operacoes, adicionados>>

\* ------------------------------------------------------ print_resumo_venda
\* f"{d:.2f}" of a Decimal: the amount in hundredths, rounded half to even
DuasCasas(d) ==
    LET q == d \div (Escala \div 100)
        r == d % (Escala \div 100)
        meio == (Escala \div 100) \div 2
    IN  IF r > meio \/ (r = meio /\ q % 2 = 1) THEN q + 1 ELSE q

\* the totals print_resumo_venda shows: its parameter valor_total is printed
\* as SUBTOTAL, and for a customer with a discount 10% of that parameter is
\* printed as DESCONTO and the parameter less that as TOTAL FINAL
print_resumo_venda(valor_total, desconto_info) ==
    IF TemDesconto(desconto_info)
    THEN LET desconto == MulDecimal(valor_total, DezPorCento)
         IN  [subtotal |-> DuasCasas(valor_total),
              desconto |-> DuasCasas(desconto),
              total |-> DuasCasas(valor_total - desconto)]
    ELSE [subtotal |-> DuasCasas(valor_total), desconto |-> NULL,
          total |-> DuasCasas(valor_total)]

\* the end of the cart loop: the total of registrar_venda, with its discount
\* taken off, is handed to print_resumo_venda, which reads each item's product
\* again and subscripts the row: for a product removed meanwhile the row is
\* None, the TypeError is caught nowhere, and the program ends
Resumir(bd, s) ==
    IF \E i \in 1..Len(s.itens) :
            buscar_produto_por_id(bd, s.itens[i].id_produto) = SemProduto
    THEN Retornar("TypeError: 'NoneType' object is not subscriptable")
    ELSE [s EXCEPT !.pc = "rv_confirmar",
                   !.aviso = "",
                   !.resumo = print_resumo_venda(
                                  CalcularValorTotal(s.itens, s.desconto_info),
                                  s.desconto_info)]

\* mutant: finishing the item entry does not look at the cart
RegistrarProdutoSemItens(o, id_produto) ==
    /\ sessao[o].pc = "rv_produto"
    /\ IF id_produto = 0
       THEN Passo(o, Resumir(BD, sessao[o]))
       ELSE /\ adicionados < MaxItens
            /\ LET produto == buscar_produto_por_id(BD, id_produto)
               IN  Passo(o, IF produto = SemProduto
                            THEN Avisar(sessao[o], "Produto não encontrado!")
                            ELSE [sessao[o] EXCEPT !.pc = "rv_quantidade",
                                    !.aviso = "",
                                    !.produto = [produto EXCEPT !.quantidade = 0]])
    /\ LojaInalterada
    /\ UNCHANGED <<clientes, vendedores, operacoes, adicionados>>

\* the product prompt of the cart loop: 0 finishes the cart, an id that does
\* not resolve is asked again
RegistrarProduto(o, id_produto) ==
    /\ sessao[o].pc = "rv_produto"
    /\ IF id_produto = 0
       THEN Passo(o, IF sessao[o].itens = <<>>
                     THEN Retornar("Nenhum item adicionado à venda. Operação cancelada.")
                     ELSE Resumir(BD, sessao[o]))
       ELSE /\ adicionados < MaxItens
            /\ LET produto == buscar_produto_por_id(BD, id_produto)
               IN  Passo(o, IF produto = SemProduto
                            THEN Avisar(sessao[o], "Produto não encontrado!")
                            \* produto[2], the stock read here, is only printed
                            ELSE [sessao[o] EXCEPT !.pc = "rv_quantidade",
                                    !.aviso = "",
                                    !.produto = [produto EXCEPT !.quantidade = 0]])
    /\ LojaInalterada
    /\ UNCHANGED <<clientes, vendedores, operacoes, adicionados>>

\* mutant: the item takes the catalog price of the moment the quantity is typed
NovoItemPrecoDeTabela(produto, quantidade) ==
    [id_produto |-> produto.id, quantidade |-> quantidade,
     preco_unitario |->
        IF produto.id \in DOMAIN produtos THEN produtos[produto.id].preco
                                          ELSE produto.preco]

\* the item appended to the cart: the price is the one read at the product prompt
NovoItem(produto, quantidade) ==
    [id_produto |-> produto.id, quantidade |-> quantidade,
     preco_unitario |-> produto.preco]

\* mutant: an accepted addition takes its quantity off the stock at once
RegistrarQuantidadeComBaixa(o, quantidade, mais) ==
    /\ sessao[o].pc = "rv_quantidade"
    /\ IF ~validar_quantidade(quantidade)
       THEN /\ Passo(o, Avisar(sessao[o],
                    "Quantidade inválida! Deve ser um número inteiro positivo."))
            /\ UNCHANGED adicionados
            /\ LojaInalterada
       ELSE IF ~verificar_estoque_suficiente(BD, sessao[o].produto.id, quantidade)
       THEN /\ Passo(o, Avisar(sessao[o], "Quantidade indisponível em estoque!"))
            /\ UNCHANGED adicionados
            /\ LojaInalterada
       ELSE /\ LET adicionado == [sessao[o] EXCEPT
                        !.itens = Append(@, NovoItem(sessao[o].produto, quantidade)),
                        !.produto = SemProduto,
                        !.aviso = "",
                        !.pc = "rv_produto"]
               IN  Passo(o, IF mais THEN adicionado ELSE Resumir(BD, adicionado))
            /\ adicionados' = adicionados + 1
            /\ Gravar(UpdateEstoque(BD, NovoItem(sessao[o].produto, quantidade)))
            /\ UNCHANGED relogio
    /\ UNCHANGED <<clientes, vendedores, operacoes>>

\* the quantity prompt of the cart loop (asked again until the quantity is
\* valid and in stock), the append, and "add more items?"
RegistrarQuantidade(o, quantidade, mais) ==
    /\ sessao[o].pc = "rv_quantidade"
    /\ IF ~validar_quantidade(quantidade)
       THEN /\ Passo(o, Avisar(sessao[o],
                    "Quantidade inválida! Deve ser um número inteiro positivo."))
            /\ UNCHANGED adicionados
       ELSE IF ~verificar_estoque_suficiente(BD, sessao[o].produto.id, quantidade)
       THEN /\ Passo(o, Avisar(sessao[o], "Quantidade indisponível em estoque!"))
            /\ UNCHANGED adicionados
       ELSE /\ LET adicionado == [sessao[o] EXCEPT
                        !.itens = Append(@, NovoItem(sessao[o].produto, quantidade)),
                        !.produto = SemProduto,
                        !.aviso = "",
                        !.pc = "rv_produto"]
               IN  Passo(o, IF mais THEN adicionado ELSE Resumir(BD, adicionado))
            /\ adicionados' = adicionados + 1
    /\ LojaInalterada
    /\ UNCHANGED <<clientes, vendedores, operacoes>>

\* the confirmation prompt and the transaction of registrar_venda
RegistrarConfirmar(o, confirma, falha) ==
    /\ sessao[o].pc = "rv_confirmar"
    /\ falha \in 0..NumEscritasRegistro(sessao[o])
    /\ confirma \/ falha = 0
    /\ IF ~confirma
       THEN /\ Passo(o, Retornar("Venda cancelada!"))
            /\ LojaInalterada
       ELSE /\ Gravar(Transacao(BD,
                    ExecutarRegistro(BD, sessao[o], NumEscritasRegistro(sessao[o])),
                    ExecutarRegistro(BD, sessao[o], falha - 1),
                    falha))
            /\ Passo(o, Retornar(IF falha = 0 THEN "Venda registrada com sucesso!"
                                              ELSE "Erro ao registrar venda"))
            /\ UNCHANGED relogio
    /\ UNCHANGED <<clientes, vendedores, operacoes, adicionados>>

\* --------------------------------------------------------- autorizar_venda
\* the message for a sale that is not pending
JaEsta(status) ==
    "Esta venda já está " \o
        (IF status \in DOMAIN STATUS_VENDA THEN STATUS_VENDA[status] ELSE status)

\* mutant: the status read is not compared with 'PENDENTE'
AutorizarLerSemStatus(o, venda_id) ==
    /\ sessao[o].pc = "av_id"
    /\ Passo(o, IF venda_id \notin 1..Len(vendas)
                THEN Retornar("Venda não encontrada!")
                ELSE [sessao[o] EXCEPT !.pc = "av_confirmar", !.venda_id = venda_id])
    /\ LojaInalterada
    /\ UNCHANGED <<clientes, vendedores, operacoes, adicionados>>

\* the id prompt and the SELECT of the sale's status
AutorizarLer(o, venda_id) ==
    /\ sessao[o].pc = "av_id"
    /\ Passo(o, IF venda_id \notin 1..Len(vendas)
                THEN Retornar("Venda não encontrada!")
                ELSE IF vendas[venda_id].status # "PENDENTE"
                THEN Retornar(JaEsta(vendas[venda_id].status))
                ELSE [sessao[o] EXCEPT !.pc = "av_confirmar", !.venda_id = venda_id])
    /\ LojaInalterada
    /\ UNCHANGED <<clientes, vendedores, operacoes, adicionados>>

\* the confirmation prompt and the transaction of autorizar_venda
AutorizarConfirmar(o, confirma, falha) ==
    /\ sessao[o].pc = "av_confirmar"
    /\ falha \in 0..2
    /\ confirma \/ falha = 0
    /\ IF ~confirma
       THEN /\ Passo(o, Retornar("Operação cancelada!"))
            /\ LojaInalterada
       ELSE /\ Gravar(Transacao(BD,
                    ExecutarAutorizacao(BD, sessao[o].venda_id, relogio + 1, 2),
                    ExecutarAutorizacao(BD, sessao[o].venda_id, relogio + 1, falha - 1),
                    falha))
            /\ relogio' = IF falha = 0 THEN relogio + 1 ELSE relogio
            /\ Passo(o, Retornar(IF falha = 0 THEN "Venda autorizada com sucesso!"
                                              ELSE "Erro ao autorizar venda"))
    /\ UNCHANGED <<clientes, vendedores, operacoes, adicionados>>

\* ------------------------------------------------------- atualizar_produto
\* ILIKE with a pattern that has no wildcard: equality of the two names with
\* their letters folded to lower case
Minusculas(nome) ==
    CASE nome = "Camisa" -> "camisa"
      [] nome = "Caneca" -> "caneca"
      [] nome = "Boné" -> "boné"
      [] OTHER -> nome

\* SELECT 1 FROM produtos WHERE nome ILIKE %s
NomeCadastrado(bd, nome) ==
    \E id \in DOMAIN bd.produtos :
        Minusculas(bd.produtos[id].nome) = Minusculas(nome)

\* SELECT 1 FROM produtos WHERE nome ILIKE %s AND id != %s
NomeDeOutro(bd, nome, id_produto) ==
    \E id \in DOMAIN bd.produtos \ {id_produto} :
        Minusculas(bd.produtos[id].nome) = Minusculas(nome)

\* the id prompt and the read of the product's current row
AtualizarLer(o, id_produto) ==
    /\ sessao[o].pc = "ap_id"
    /\ LET produto == buscar_produto_por_id(BD, id_produto)
       IN  Passo(o, IF produto = SemProduto
                    THEN Retornar("Produto não encontrado!")
                    ELSE [sessao[o] EXCEPT !.pc = "ap_confirmar", !.produto = produto])
    /\ LojaInalterada
    /\ UNCHANGED <<clientes, vendedores, operacoes, adicionados>>

\* the field prompts (a blank keeps the value read), the confirmation and the
\* UPDATE. The name prompt runs NomeDeOutro and prints what it found, but the
\* break of its finally clause leaves the prompt loop with the name typed
\* whatever the query found or raised: the query decides nothing, and the
\* prompt is part of this step.
AtualizarConfirmar(o, nome, quantidade_em_branco, quantidade, preco_em_branco, preco, confirma, falha) ==
    /\ sessao[o].pc = "ap_confirmar"
    /\ quantidade_em_branco \/ validar_quantidade(quantidade)
    /\ confirma \/ ~falha
    /\ LET novo_nome == IF nome = EmBranco THEN sessao[o].produto.nome ELSE nome
           nova_quantidade ==
               IF quantidade_em_branco THEN sessao[o].produto.quantidade ELSE quantidade
           novo_preco ==
               IF preco_em_branco THEN sessao[o].produto.preco ELSE ParaFloat(preco)
           escrito == UpdateProduto(BD, sessao[o].produto.id, novo_nome,
                                    nova_quantidade, novo_preco)
       IN  IF ~confirma
           THEN /\ Passo(o, Retornar("Atualização cancelada!"))
                /\ LojaInalterada
           ELSE /\ Gravar(Transacao(BD, escrito, BD, IF falha THEN 1 ELSE 0))
                /\ Passo(o, Retornar(IF falha THEN "Erro ao atualizar produto"
                                              ELSE "Produto atualizado com sucesso!"))
                /\ UNCHANGED relogio
    /\ UNCHANGED <<clientes, vendedores, operacoes, adicionados>>

\* ------------------------------------------------------ atualizar_vendedor
\* UPDATE vendedores SET nome, email, telefone, ativo = %s WHERE matricula = %s
UpdateVendedor(vds, matricula, ativo) ==
    IF matricula \in DOMAIN vds
    THEN [vds EXCEPT ![matricula].ativo = ativo]
    ELSE vds

\* the id prompt and the read of the seller's current row
AtualizarVendedorLer(o, matricula) ==
    /\ sessao[o].pc = "avd_id"
    /\ LET vendedor == buscar_vendedor_por_matricula(vendedores, matricula)
       IN  Passo(o, IF vendedor = SemVendedor
                    THEN Retornar("Vendedor não encontrado!")
                    ELSE [sessao[o] EXCEPT !.pc = "avd_confirmar",
                                           !.vendedor = vendedor])
    /\ LojaInalterada
    /\ UNCHANGED <<clientes, vendedores, operacoes, adicionados>>

\* the field prompts (a blank keeps the value read), the confirmation and the UPDATE
AtualizarVendedorConfirmar(o, status_em_branco, novo_status, confirma, falha) ==
    /\ sessao[o].pc = "avd_confirmar"
    /\ confirma \/ ~falha
    /\ status_em_branco => novo_status
    /\ LET ativo == IF status_em_branco THEN sessao[o].vendedor.ativo ELSE novo_status
           escrito == UpdateVendedor(vendedores, sessao[o].vendedor.matricula, ativo)
       IN  IF ~confirma
           THEN /\ Passo(o, Retornar("Atualização cancelada!"))
                /\ UNCHANGED vendedores
           ELSE /\ vendedores' =
                        Transacao(vendedores, escrito, vendedores, IF falha THEN 1 ELSE 0)
                /\ Passo(o, Retornar(IF falha THEN "Erro ao atualizar vendedor"
                                              ELSE "Vendedor atualizado com sucesso!"))
    /\ LojaInalterada
    /\ UNCHANGED <<clientes, operacoes, adicionados>>

\* --------------------------------------------------------- deletar_cliente
\* SELECT 1 FROM vendas WHERE cliente_matricula = %s LIMIT 1
PossuiVendas(vds, matricula) ==
    \E i \in 1..Len(vds) : vds[i].cliente_matricula = matricula

\* DELETE FROM clientes WHERE matricula = %s
DeleteCliente(cli, matricula) == [m \in DOMAIN cli \ {matricula} |-> cli[m]]

\* option 4 of menu_clientes, up to its confirmation prompt: the same lines in
\* clientes.py and in main.py
RemoverClienteLer(o, matricula) ==
    /\ sessao[o].pc \in {"dc_id", "mdc_id"}
    /\ Passo(o, IF matricula \notin DOMAIN clientes
                THEN Retornar("Cliente não encontrado!")
                ELSE [sessao[o] EXCEPT
                        !.pc = IF @ = "dc_id" THEN "dc_confirmar" ELSE "mdc_confirmar",
                        !.matricula = matricula])
    /\ LojaInalterada
    /\ UNCHANGED <<clientes, vendedores, operacoes, adicionados>>

\* the confirmation prompt and deletar_cliente of clientes.py
DeletarCliente(o, confirma, falha) ==
    /\ sessao[o].pc = "dc_confirmar"
    /\ confirma \/ ~falha
    /\ LET matricula == sessao[o].matricula
       IN  IF ~confirma
           THEN Passo(o, Retornar("")) /\ UNCHANGED clientes
           ELSE IF falha
           THEN Passo(o, Retornar("Erro ao remover cliente")) /\ UNCHANGED clientes
           ELSE IF PossuiVendas(vendas, matricula)
           THEN /\ Passo(o, Retornar(
                    "Este cliente possui vendas associadas e não pode ser removido!"))
                /\ UNCHANGED clientes
           ELSE /\ clientes' = DeleteCliente(clientes, matricula)
                /\ Passo(o, Retornar(
                        IF matricula \in DOMAIN clientes
                        THEN "Cliente removido com sucesso!"
                        ELSE "Nenhum cliente encontrado com essa matrícula!"))
    /\ LojaInalterada
    /\ UNCHANGED <<vendedores, operacoes, adicionados>>

\* the confirmation prompt and deletar_cliente of main.py
MainDeletarCliente(o, confirma, falha) ==
    /\ sessao[o].pc = "mdc_confirmar"
    /\ confirma \/ ~falha
    /\ IF ~confirma
       THEN Passo(o, Retornar("")) /\ UNCHANGED clientes
       ELSE IF falha
       THEN Passo(o, Retornar("Erro ao deletar cliente")) /\ UNCHANGED clientes
       ELSE /\ clientes' = DeleteCliente(clientes, sessao[o].matricula)
            /\ Passo(o, Retornar("Cliente deletado com sucesso!"))
    /\ LojaInalterada
    /\ UNCHANGED <<vendedores, operacoes, adicionados>>

\* --------------------------------------------------------- deletar_produto
\* mutant: the id is compared with the line item's sale, not with its product
EstaEmVendaPorIdVenda(linhas, id_produto) ==
    \E k \in 1..Len(linhas) : linhas[k].id_venda = id_produto

\* SELECT 1 FROM itens_venda WHERE id_produto = %s LIMIT 1
EstaEmVenda(linhas, id_produto) ==
    \E k \in 1..Len(linhas) : linhas[k].id_produto = id_produto

\* DELETE FROM produtos WHERE id = %s
DeleteProduto(bd, id_produto) ==
    [bd EXCEPT !.produtos = [p \in DOMAIN @ \ {id_produto} |-> @[p]]]

\* the id prompt and the read of the product's row
DeletarProdutoLer(o, id_produto) ==
    /\ sessao[o].pc = "dp_id"
    /\ LET produto == buscar_produto_por_id(BD, id_produto)
       IN  Passo(o, IF produto = SemProduto
                    THEN Retornar("Produto não encontrado!")
                    \* the row read is only printed
                    ELSE [sessao[o] EXCEPT !.pc = "dp_confirmar",
                            !.produto = [SemProduto EXCEPT !.id = produto.id]])
    /\ LojaInalterada
    /\ UNCHANGED <<clientes, vendedores, operacoes, adicionados>>

\* the confirmation prompt, the check for line items and the DELETE; falha = 1:
\* the check raises psycopg2.Error, falha = 2: the DELETE does
DeletarProdutoConfirmar(o, confirma, falha) ==
    /\ sessao[o].pc = "dp_confirmar"
    /\ falha \in 0..2
    /\ confirma \/ falha = 0
    /\ LET id_produto == sessao[o].produto.id
       IN  IF ~confirma
           THEN Passo(o, Retornar("Remoção cancelada!")) /\ LojaInalterada
           ELSE IF falha = 1
           THEN Passo(o, Retornar("Erro ao verificar vendas")) /\ LojaInalterada
           ELSE IF EstaEmVenda(itens_venda, id_produto)
           THEN /\ Passo(o, Retornar(
                    "Este produto está associado a vendas e não pode ser removido!"))
                /\ LojaInalterada
           ELSE /\ Gravar(Transacao(BD, DeleteProduto(BD, id_produto), BD,
                                    IF falha = 2 THEN 1 ELSE 0))
                /\ Passo(o, Retornar(IF falha = 2 THEN "Erro ao remover produto"
                                                  ELSE "Produto removido com sucesso!"))
                /\ UNCHANGED relogio
    /\ UNCHANGED <<clientes, vendedores, operacoes, adicionados>>

\* -------------------------------------------------------- deletar_vendedor
\* SELECT 1 FROM vendedor_vendas WHERE vendedor_matricula = %s LIMIT 1
AssociadoAVendas(vv, matricula) ==
    \E k \in 1..Len(vv) : vv[k].vendedor_matricula = matricula

\* DELETE FROM vendedores WHERE matricula = %s
DeleteVendedor(vds, matricula) == [m \in DOMAIN vds \ {matricula} |-> vds[m]]

\* option 4 of menu_vendedores, up to its confirmation prompt
RemoverVendedorLer(o, matricula) ==
    /\ sessao[o].pc = "dv_id"
    /\ LET vendedor == buscar_vendedor_por_matricula(vendedores, matricula)
       IN  Passo(o, IF vendedor = SemVendedor
                    THEN Retornar("Vendedor não encontrado!")
                    ELSE [sessao[o] EXCEPT !.pc = "dv_confirmar",
                                           !.vendedor = vendedor])
    /\ LojaInalterada
    /\ UNCHANGED <<clientes, vendedores, operacoes, adicionados>>

\* the confirmation prompt and deletar_vendedor
DeletarVendedor(o, confirma, falha) ==
    /\ sessao[o].pc = "dv_confirmar"
    /\ confirma \/ ~falha
    /\ LET matricula == sessao[o].vendedor.matricula
       IN  IF ~confirma
           THEN Passo(o, Retornar("")) /\ UNCHANGED vendedores
           ELSE IF falha
           THEN Passo(o, Retornar("Erro ao remover vendedor")) /\ UNCHANGED vendedores
           ELSE IF AssociadoAVendas(vendedor_vendas, matricula)
           THEN /\ Passo(o, Retornar(
                    "Este vendedor está associado a vendas e não pode ser removido!"))
                /\ UNCHANGED vendedores
           ELSE /\ vendedores' = DeleteVendedor(vendedores, matricula)
                /\ Passo(o, Retornar(
                        IF matricula \in DOMAIN vendedores
                        THEN "Vendedor removido com sucesso!"
                        ELSE "Nenhum vendedor encontrado com essa matrícula!"))
    /\ LojaInalterada
    /\ UNCHANGED <<clientes, operacoes, adicionados>>

\* ----------------------------------------------------------- criar_produto
\* the id the serial column gives the next row: above every id in the table
\* (no product is removed where products are created)
ProximoId(bd) ==
    1 + CHOOSE n \in DOMAIN bd.produtos : \A id \in DOMAIN bd.produtos : id <= n

\* INSERT INTO produtos (nome, quantidade, preco, cidade, categoria) ... RETURNING id
InsertProduto(bd, nome, quantidade, preco) ==
    [bd EXCEPT !.produtos =
        [id \in DOMAIN bd.produtos \cup {ProximoId(bd)} |->
            IF id \in DOMAIN bd.produtos THEN bd.produtos[id]
            ELSE [nome |-> nome, quantidade |-> quantidade, preco |-> preco]]]

\* the name prompt of criar_produto: the try block prints its message and
\* executes continue (a product has the name) or return (the query raised),
\* and the break of its finally clause then leaves the prompt loop, with the
\* name typed, in every case
CriarProdutoNome(o, nome, erro) ==
    /\ sessao[o].pc = "cp_nome"
    /\ Passo(o, [sessao[o] EXCEPT
            !.pc = "cp_inserir",
            !.nome = nome,
            !.aviso = IF erro THEN "Erro ao verificar produto"
                      ELSE IF NomeCadastrado(BD, nome)
                      THEN "Produto com esse nome já cadastrado!"
                      ELSE ""])
    /\ LojaInalterada
    /\ UNCHANGED <<clientes, vendedores, operacoes, adicionados>>

\* the remaining prompts of criar_produto and its INSERT
CriarProdutoInserir(o, quantidade, preco, falha) ==
    /\ sessao[o].pc = "cp_inserir"
    /\ validar_quantidade(quantidade)
    /\ Gravar(Transacao(BD, InsertProduto(BD, sessao[o].nome, quantidade,
                                          ParaFloat(preco)),
                        BD, IF falha THEN 1 ELSE 0))
    /\ Passo(o, Retornar(IF falha THEN "Erro ao cadastrar produto"
                                  ELSE "Produto cadastrado com sucesso!"))
    /\ UNCHANGED <<relogio, clientes, vendedores, operacoes, adicionados>>

\* ------------------------------------------- criar_cliente, atualizar_cliente
\* the row of a customer as the store keeps it and its eligibility predicate
\* answers for it: a partner qualifies, with the reason "Sócio"; the team,
\* city and media preference typed are those of a customer who does not
\* qualify on them
LinhaCliente(email, eh_socio) ==
    [tem_desconto |-> eh_socio, motivo |-> IF eh_socio THEN "Sócio" ELSE "",
     email |-> email]

\* buscar_cliente_por_matricula: the columns the update prompts show
buscar_cliente_por_matricula(cli, matricula) ==
    IF matricula \in DOMAIN cli
    THEN [email |-> cli[matricula].email, eh_socio |-> cli[matricula].tem_desconto]
    ELSE SemCliente

\* SELECT 1 FROM clientes WHERE email = %s
EmailCadastrado(cli, email) == \E m \in DOMAIN cli : cli[m].email = email

\* SELECT 1 FROM clientes WHERE email = %s AND matricula != %s
EmailDeOutro(cli, email, matricula) ==
    \E m \in DOMAIN cli \ {matricula} : cli[m].email = email

\* INSERT INTO clientes (matricula, nome, email, ...) VALUES (...)
InsertCliente(cli, matricula, email, eh_socio) ==
    [m \in DOMAIN cli \cup {matricula} |->
        IF m = matricula THEN LinhaCliente(email, eh_socio) ELSE cli[m]]

\* UPDATE clientes SET nome, email = %s, telefone, eh_socio = %s, ... WHERE matricula = %s
UpdateCliente(cli, matricula, email, eh_socio) ==
    IF matricula \in DOMAIN cli
    THEN [cli EXCEPT ![matricula] = LinhaCliente(email, eh_socio)]
    ELSE cli

\* the registration number prompt of criar_cliente
CriarClienteMatricula(o, matricula) ==
    /\ sessao[o].pc = "cc_matricula"
    /\ Passo(o, IF matricula \in DOMAIN clientes
                THEN Retornar("Matrícula já cadastrada no sistema!")
                ELSE [sessao[o] EXCEPT !.pc = "cc_email", !.matricula = matricula])
    /\ LojaInalterada
    /\ UNCHANGED <<clientes, vendedores, operacoes, adicionados>>

\* the email prompt of criar_cliente: the try block prints its message and
\* executes continue (the email is registered) or return (the query raised),
\* and the break of its finally clause then leaves the prompt loop, with the
\* email typed, in every case
CriarClienteEmail(o, email, erro) ==
    /\ sessao[o].pc = "cc_email"
    /\ Passo(o, [sessao[o] EXCEPT
            !.pc = "cc_inserir",
            !.email = email,
            !.aviso = IF erro THEN "Erro ao verificar email"
                      ELSE IF EmailCadastrado(clientes, email)
                      THEN "Email já cadastrado no sistema!"
                      ELSE ""])
    /\ LojaInalterada
    /\ UNCHANGED <<clientes, vendedores, operacoes, adicionados>>

\* the remaining prompts of criar_cliente and its INSERT; a registration
\* number inserted meanwhile by another operator makes the INSERT raise
CriarClienteInserir(o, eh_socio, falha) ==
    /\ sessao[o].pc = "cc_inserir"
    /\ LET recusado == falha \/ sessao[o].matricula \in DOMAIN clientes
       IN  /\ clientes' =
                Transacao(clientes,
                          InsertCliente(clientes, sessao[o].matricula,
                                        sessao[o].email, eh_socio),
                          clientes, IF recusado THEN 1 ELSE 0)
           /\ Passo(o, Retornar(IF recusado THEN "Erro ao cadastrar cliente"
                                            ELSE "Cliente cadastrado com sucesso!"))
    /\ LojaInalterada
    /\ UNCHANGED <<vendedores, operacoes, adicionados>>

\* the registration number prompt of atualizar_cliente and the read of the row
AtualizarClienteLer(o, matricula) ==
    /\ sessao[o].pc = "ac_id"
    /\ Passo(o, IF matricula \notin DOMAIN clientes
                THEN Retornar("Cliente não encontrado!")
                ELSE [sessao[o] EXCEPT
                        !.pc = "ac_email",
                        !.matricula = matricula,
                        !.cliente = buscar_cliente_por_matricula(clientes, matricula)])
    /\ LojaInalterada
    /\ UNCHANGED <<clientes, vendedores, operacoes, adicionados>>

\* the email prompt of atualizar_cliente: a blank keeps the email read, an
\* email that differs from it and is held by another customer is asked again
AtualizarClienteEmail(o, em_branco, email, erro) ==
    /\ sessao[o].pc = "ac_email"
    /\ em_branco => ~erro
    /\ LET novo_email == IF em_branco THEN sessao[o].cliente.email ELSE email
           verifica == ~em_branco /\ novo_email # sessao[o].cliente.email
       IN  Passo(o, IF verifica /\ erro
                    THEN Retornar("Erro ao verificar email")
                    ELSE IF verifica /\ EmailDeOutro(clientes, novo_email,
                                                     sessao[o].matricula)
                    THEN Avisar(sessao[o], "Email já está em uso por outro cliente!")
                    ELSE [sessao[o] EXCEPT !.pc = "ac_confirmar",
                                           !.email = novo_email, !.aviso = ""])
    /\ LojaInalterada
    /\ UNCHANGED <<clientes, vendedores, operacoes, adicionados>>

\* the remaining prompts of atualizar_cliente (a blank keeps the value read),
\* the confirmation and the UPDATE
AtualizarClienteConfirmar(o, status_em_branco, novo_status, confirma, falha) ==
    /\ sessao[o].pc = "ac_confirmar"
    /\ confirma \/ ~falha
    /\ status_em_branco => novo_status
    /\ LET eh_socio ==
               IF status_em_branco THEN sessao[o].cliente.eh_socio ELSE novo_status
           escrito == UpdateCliente(clientes, sessao[o].matricula,
                                    sessao[o].email, eh_socio)
       IN  IF ~confirma
           THEN /\ Passo(o, Retornar("Atualização cancelada!"))
                /\ UNCHANGED clientes
           ELSE /\ clientes' =
                        Transacao(clientes, escrito, clientes, IF falha THEN 1 ELSE 0)
                /\ Passo(o, Retornar(IF falha THEN "Erro ao atualizar cliente"
                                              ELSE "Cliente atualizado com sucesso!"))
    /\ LojaInalterada
    /\ UNCHANGED <<vendedores, operacoes, adicionados>>

\* ----------------------------------------------------------- specifications
\* the steps of registrar_venda open to operator o, with the customer ids,
\* lookup failures, product ids and quantities the operator may type or meet
PassosRegistro(o, matriculas, erros, ids, quantidades) ==
    \/ \E m \in matriculas, erro \in erros,
          opcao \in OpcoesPagamentoDigitadas, mv \in MatriculasVendedorDigitadas :
            RegistrarInicio(o, m, erro, opcao, mv)
    \/ \E id \in ids \cup {0} : RegistrarProduto(o, id)
    \/ \E q \in quantidades, mais \in BOOLEAN : RegistrarQuantidade(o, q, mais)
    \/ \E confirma \in BOOLEAN, falha \in 0..(2 + 2 * MaxItens) :
            RegistrarConfirmar(o, confirma, falha)

\* the steps of autorizar_venda open to operator o
PassosAutorizacao(o) ==
    \/ \E id \in IdsVendaDigitados : AutorizarLer(o, id)
    \/ \E confirma \in BOOLEAN, falha \in 0..2 : AutorizarConfirmar(o, confirma, falha)

\* the steps of registrar_venda and autorizar_venda open to operator o
PassosVenda(o, matriculas, erros, ids, quantidades) ==
    \/ PassosRegistro(o, matriculas, erros, ids, quantidades)
    \/ PassosAutorizacao(o)

\* the steps of atualizar_vendedor open to operator o
PassosVendedor(o) ==
    \/ \E m \in MatriculasVendedorDigitadas : AtualizarVendedorLer(o, m)
    \/ \E sb \in BOOLEAN, ns \in BOOLEAN, confirma \in BOOLEAN, falha \in BOOLEAN :
            AtualizarVendedorConfirmar(o, sb, ns, confirma, falha)

\* the steps of the removals of customers and products open to operator o
PassosRemocao(o) ==
    \/ \E m \in MatriculasDigitadas : RemoverClienteLer(o, m)
    \/ \E confirma \in BOOLEAN, falha \in BOOLEAN : DeletarCliente(o, confirma, falha)
    \/ \E confirma \in BOOLEAN, falha \in BOOLEAN : MainDeletarCliente(o, confirma, falha)
    \/ \E id \in IdsProdutoDigitados : DeletarProdutoLer(o, id)
    \/ \E confirma \in BOOLEAN, falha \in 0..2 : DeletarProdutoConfirmar(o, confirma, falha)

\* the steps of atualizar_produto open to operator o
PassosProduto(o, ids, nomes, brancos, quantidades) ==
    \/ \E id \in ids : AtualizarLer(o, id)
    \/ \E nome \in nomes, qb \in brancos, q \in quantidades, pb \in BOOLEAN,
          p \in PrecosDigitados, confirma \in BOOLEAN, falha \in BOOLEAN :
            AtualizarConfirmar(o, nome, qb, q, pb, p, confirma, falha)

\* the steps of criar_produto open to operator o
PassosCadastro(o) ==
    \/ \E nome \in NomesDigitados, erro \in BOOLEAN : CriarProdutoNome(o, nome, erro)
    \/ \E q \in QuantidadesDuasCaixas, p \in PrecosDigitados, falha \in BOOLEAN :
            CriarProdutoInserir(o, q, p, falha)

\* two operators, every handler
Next ==
    \E o \in Operadores :
        \/ \E h \in {"registrar_venda", "autorizar_venda", "atualizar_produto"} :
                Menu(o, h)
        \/ PassosVenda(o, MatriculasDigitadas, {FALSE}, IdsProdutoDuasCaixas,
                       QuantidadesDuasCaixas)
        \/ PassosProduto(o, IdsAtualizados, {EmBranco}, BOOLEAN, QuantidadesDuasCaixas)

Spec == Init /\ [][Next]_vars

\* two operators, sales only: no operator runs atualizar_produto
NextVendas ==
    \E o \in Operadores :
        \/ \E h \in {"registrar_venda", "autorizar_venda"} : Menu(o, h)
        \/ PassosVenda(o, MatriculasDigitadas, {FALSE}, IdsProdutoDuasCaixas,
                       QuantidadesDuasCaixas)

SpecVendas == Init /\ [][NextVendas]_vars

\* one operator, sales only, with every input the prompts accept or reject
NextCaixa ==
    \/ \E h \in {"registrar_venda", "autorizar_venda"} : Menu("op1", h)
    \/ PassosVenda("op1", MatriculasDigitadas, BOOLEAN, IdsProdutoDigitados,
                   QuantidadesDigitadas)

SpecCaixa == Init /\ [][NextCaixa]_vars

\* the steps of criar_cliente and atualizar_cliente open to operator o
PassosCliente(o) ==
    \/ \E m \in MatriculasDigitadas : CriarClienteMatricula(o, m)
    \/ \E e \in EmailsDigitados, erro \in BOOLEAN : CriarClienteEmail(o, e, erro)
    \/ \E socio \in BOOLEAN, falha \in BOOLEAN : CriarClienteInserir(o, socio, falha)
    \/ \E m \in MatriculasDigitadas : AtualizarClienteLer(o, m)
    \/ \E eb \in BOOLEAN, e \in EmailsDigitados, erro \in BOOLEAN :
            AtualizarClienteEmail(o, eb, e, erro)
    \/ \E sb \in BOOLEAN, ns \in BOOLEAN, confirma \in BOOLEAN, falha \in BOOLEAN :
            AtualizarClienteConfirmar(o, sb, ns, confirma, falha)

\* the steps of the removal of a seller open to operator o
PassosEquipe(o) ==
    \/ \E m \in MatriculasVendedorDigitadas : RemoverVendedorLer(o, m)
    \/ \E confirma \in BOOLEAN, falha \in BOOLEAN : DeletarVendedor(o, confirma, falha)

\* two operators, sales, authorizations and removals of sellers
NextEquipe ==
    \E o \in Operadores :
        \/ \E h \in {"registrar_venda", "autorizar_venda", "deletar_vendedor"} :
                Menu(o, h)
        \/ PassosVenda(o, {"c1"}, {FALSE}, IdsProdutoDuasCaixas, QuantidadesDuasCaixas)
        \/ PassosEquipe(o)

SpecEquipe == Init /\ [][NextEquipe]_vars

\* two operators, sales and updates of products whose quantity prompt is
\* always left blank
NextEmBranco ==
    \E o \in Operadores :
        \/ \E h \in {"registrar_venda", "atualizar_produto"} : Menu(o, h)
        \/ PassosRegistro(o, MatriculasDigitadas, {FALSE}, IdsProdutoDuasCaixas,
                          QuantidadesDuasCaixas)
        \/ PassosProduto(o, IdsAtualizados, {EmBranco}, {TRUE}, QuantidadesDuasCaixas)

SpecEmBranco == Init /\ [][NextEmBranco]_vars

\* two operators, registrations and updates of products
NextProdutos ==
    \E o \in Operadores :
        \/ \E h \in {"criar_produto", "atualizar_produto"} : Menu(o, h)
        \/ PassosCadastro(o)
        \/ PassosProduto(o, IdsProdutoDigitados, NomesDigitados \cup {EmBranco},
                         BOOLEAN, QuantidadesDuasCaixas)

SpecProdutos == Init /\ [][NextProdutos]_vars

\* two operators, registrations and updates of customers
NextClientes ==
    \E o \in Operadores :
        \/ \E h \in {"criar_cliente", "atualizar_cliente"} : Menu(o, h)
        \/ PassosCliente(o)

SpecClientes == Init /\ [][NextClientes]_vars

\* two operators, sales and seller updates
NextVendedores ==
    \E o \in Operadores :
        \/ \E h \in {"registrar_venda", "atualizar_vendedor"} : Menu(o, h)
        \/ PassosRegistro(o, MatriculasDigitadas, {FALSE}, IdsProdutoDuasCaixas,
                          QuantidadesDuasCaixas)
        \/ PassosVendedor(o)

SpecVendedores == Init /\ [][NextVendedores]_vars

\* two operators, sales and the removals of customers and products
NextRemocoes ==
    \E o \in Operadores :
        \/ \E h \in {"registrar_venda", "deletar_cliente", "main.deletar_cliente",
                      "deletar_produto"} : Menu(o, h)
        \/ PassosRegistro(o, MatriculasDigitadas, {FALSE}, IdsProdutoDigitados,
                          QuantidadesDuasCaixas)
        \/ PassosRemocao(o)

SpecRemocoes == Init /\ [][NextRemocoes]_vars

\* ------------------------------------------------------------------ claims
\* operator o's confirmed registrar_venda transaction is committed in this step
VendaRegistrada(o) ==
    /\ sessao[o].pc = "rv_confirmar"
    /\ sessao'[o].pc = "menu"
    /\ Len(vendas') = Len(vendas) + 1

\* the units of product p in a cart
RECURSIVE QuantidadeNoCarrinho(_, _)
QuantidadeNoCarrinho(its, p) ==
    IF its = <<>> THEN 0
    ELSE (IF Head(its).id_produto = p THEN Head(its).quantidade ELSE 0)
         + QuantidadeNoCarrinho(Tail(its), p)

\* no product was added twice to the cart
CarrinhoSemRepeticao(its) ==
    \A i, j \in 1..Len(its) : its[i].id_produto = its[j].id_produto => i = j

\* the persisted line items of sale venda_id, in insertion order
ItensDaVenda(linhas, venda_id) ==
    SelectSeq(linhas, LAMBDA linha : linha.id_venda = venda_id)

\* the attribution rows of sale venda_id
AtribuicoesDaVenda(linhas, venda_id) ==
    SelectSeq(linhas, LAMBDA linha : linha.id_venda = venda_id)

\* C1: no product's stock quantity is ever negative, whatever the carts sold
\* (the same product may be added to a cart more than once).
C1_EstoqueNaoNegativo ==
    \A p \in DOMAIN produtos : produtos[p].quantidade >= 0

\* C2: the decrement at commit is conditional: a committed sale whose cart
\* holds each product once, each addition having passed the stock check, never
\* takes a stock that was not negative below zero, whatever another operator
\* committed since the check.
C2_DecrementoCondicional ==
    [][\A o \in Operadores :
         (VendaRegistrada(o) /\ CarrinhoSemRepeticao(sessao[o].itens)) =>
            \A p \in DOMAIN produtos :
                produtos[p].quantidade >= 0 => produtos'[p].quantidade >= 0]_vars

\* C3: the transaction of registrar_venda is all-or-nothing: after the step
\* that runs it the store either is exactly as before, or holds the new sale
\* header, its one attribution row, one line item per cart entry and every
\* stock decrement.
C3_TudoOuNada ==
    [][\A o \in Operadores :
         (sessao[o].pc = "rv_confirmar" /\ sessao'[o].pc = "menu") =>
            \/ /\ vendas' = vendas
               /\ vendedor_vendas' = vendedor_vendas
               /\ itens_venda' = itens_venda
               /\ produtos' = produtos
            \/ LET id == Len(vendas) + 1
                   its == sessao[o].itens
                   linhas == ItensDaVenda(itens_venda', id)
               IN  /\ Len(vendas') = id
                   /\ SubSeq(vendas', 1, Len(vendas)) = vendas
                   /\ vendas'[id].cliente_matricula = sessao[o].matricula
                   /\ Len(AtribuicoesDaVenda(vendedor_vendas', id)) = 1
                   /\ Len(vendedor_vendas') = Len(vendedor_vendas) + 1
                   /\ Len(itens_venda') = Len(itens_venda) + Len(its)
                   /\ Len(linhas) = Len(its)
                   /\ \A i \in 1..Len(its) :
                        /\ linhas[i].id_produto = its[i].id_produto
                        /\ linhas[i].quantidade = its[i].quantidade
                   /\ \A p \in DOMAIN produtos :
                        produtos'[p].quantidade =
                            produtos[p].quantidade - QuantidadeNoCarrinho(its, p)]_vars

\* C3 witness: a transaction of a two-item cart failed and nothing of it is stored
C3_Witness ==
    \E o \in Operadores :
        /\ sessao[o].resultado = "Erro ao registrar venda"
        /\ adicionados = 2
        /\ operacoes = 1
        /\ vendas = <<>> /\ itens_venda = <<>> /\ vendedor_vendas = <<>>
        /\ produtos = ProdutosIniciais

\* C4: a sale is created PENDENTE by registrar_venda; the only status change a
\* sale undergoes is PENDENTE -> AUTORIZADA, made by autorizar_venda; no sale
\* is ever CANCELADA and no sale row disappears.
C4_CicloDeStatus ==
    [][/\ Len(vendas') >= Len(vendas)
       /\ \A i \in 1..Len(vendas') :
            IF i > Len(vendas)
            THEN /\ vendas'[i].status = "PENDENTE"
                 /\ \E o \in Operadores : VendaRegistrada(o)
            ELSE /\ vendas'[i].status \in {"PENDENTE", "AUTORIZADA"}
                 /\ vendas'[i].status # vendas[i].status =>
                        /\ vendas[i].status = "PENDENTE"
                        /\ vendas'[i].status = "AUTORIZADA"
                        /\ \E o \in Operadores :
                              /\ sessao[o].pc = "av_confirmar"
                              /\ sessao[o].venda_id = i
                              /\ sessao'[o].pc = "menu"]_vars

\* C4 witness: one sale was authorized while another is still pending
C4_Witness ==
    \E i, j \in 1..Len(vendas) :
        vendas[i].status = "AUTORIZADA" /\ vendas[j].status = "PENDENTE"

\* C5: autorizar_venda given an id that resolves to no sale, or to a sale that
\* is not PENDENTE, reports it and returns with the store untouched; it goes
\* on to the confirmation only for a sale it read as PENDENTE.
C5_AutorizacaoRecusada ==
    [][\A o \in Operadores :
         (sessao[o].pc = "av_id" /\ sessao'[o] # sessao[o]) =>
            IF sessao'[o].pc = "av_confirmar"
            THEN /\ sessao'[o].venda_id \in 1..Len(vendas)
                 /\ vendas[sessao'[o].venda_id].status = "PENDENTE"
            ELSE /\ sessao'[o].pc = "menu"
                 /\ sessao'[o].resultado \in
                        {"Venda não encontrada!", "Esta venda já está Autorizada",
                         "Esta venda já está Cancelada"}
                 /\ vendas' = vendas
                 /\ vendedor_vendas' = vendedor_vendas
                 /\ itens_venda' = itens_venda
                 /\ produtos' = produtos
                 /\ relogio' = relogio]_vars

\* C5 witness: a second authorization of an authorized sale was refused and
\* the timestamp of the first one stands
C5_Witness ==
    \E o \in Operadores :
        /\ sessao[o].resultado = "Esta venda já está Autorizada"
        /\ Len(vendas) = 1
        /\ vendas[1].status = "AUTORIZADA"
        /\ vendedor_vendas[1].data_autorizacao = 1

\* C6: a sale is authorized exactly once: an authorization timestamp, once
\* stamped, is never written again, also when two operators authorize the
\* same pending sale concurrently.
C6_AutorizadaUmaVez ==
    [][\A i \in 1..Len(vendedor_vendas) :
         vendedor_vendas[i].data_autorizacao # NULL =>
            /\ Len(vendedor_vendas') >= i
            /\ vendedor_vendas'[i].data_autorizacao =
                    vendedor_vendas[i].data_autorizacao]_vars

\* the subtotal of a cart: the sum over its items of quantity * unit price
RECURSIVE Subtotal(_, _)
Subtotal(its, n) ==
    IF n = 0 THEN 0
    ELSE Subtotal(its, n - 1) + its[n].quantidade * its[n].preco_unitario

\* C7: a committed cart of subtotal S persists, for a customer whose
\* eligibility result qualifies, total 0.90 * S, discount amount 0.10 * S, the
\* discount flag and the resolver's reason; otherwise total S and empty
\* discount fields.
C7_TotalPersistido ==
    [][\A o \in Operadores :
         VendaRegistrada(o) =>
            LET v == vendas'[Len(vendas')]
                S == Subtotal(sessao[o].itens, Len(sessao[o].itens))
                info == sessao[o].desconto_info
            IN  IF info.existe /\ info.tem_desconto
                THEN /\ 10 * v.valor_total = 9 * S
                     /\ 10 * v.valor_desconto = S
                     /\ v.desconto_aplicado
                     /\ v.motivo_desconto = info.motivo
                ELSE /\ v.valor_total = S
                     /\ v.valor_desconto = NULL
                     /\ ~v.desconto_aplicado
                     /\ v.motivo_desconto = ""]_vars

\* C7 witness: the cart [(2, 10.00), (1, 5.00)] of a qualifying customer is
\* persisted with total 22.50 and discount amount 2.50
C7_Witness ==
    /\ Len(vendas) = 1
    /\ vendas[1].valor_total = 22500
    /\ vendas[1].valor_desconto = 2500
    /\ vendas[1].desconto_aplicado
    /\ Len(itens_venda) = 2
    /\ itens_venda[1].quantidade = 2 /\ itens_venda[1].valor_unitario = 10000
    /\ itens_venda[2].quantidade = 1 /\ itens_venda[2].valor_unitario = 5000

\* the sum over persisted line items of quantity * unit price
RECURSIVE SomaLinhas(_)
SomaLinhas(linhas) ==
    IF linhas = <<>> THEN 0
    ELSE Head(linhas).quantidade * Head(linhas).valor_unitario
         + SomaLinhas(Tail(linhas))

\* C8: for every persisted sale, the sum over its line items of quantity *
\* unit price, minus its discount amount (zero when none), is its total.
C8_TotalDasLinhas ==
    \A i \in 1..Len(vendas) :
        SomaLinhas(ItensDaVenda(itens_venda, i))
            - (IF vendas[i].valor_desconto = NULL THEN 0 ELSE vendas[i].valor_desconto)
        = vendas[i].valor_total

\* C8 witness: an authorized, discounted sale holds a line item whose product
\* has since got another catalog price
C8_Witness ==
    \E i \in 1..Len(vendas) :
        /\ vendas[i].status = "AUTORIZADA"
        /\ vendas[i].desconto_aplicado
        /\ \E k \in 1..Len(itens_venda) :
              /\ itens_venda[k].id_venda = i
              /\ itens_venda[k].id_produto \in DOMAIN produtos
              /\ itens_venda[k].valor_unitario # produtos[itens_venda[k].id_produto].preco

\* the units of product p in the persisted line items of committed sales
RECURSIVE QuantidadeVendida(_, _, _)
QuantidadeVendida(linhas, p, n) ==
    IF linhas = <<>> THEN 0
    ELSE (IF Head(linhas).id_produto = p /\ Head(linhas).id_venda \in 1..n
          THEN Head(linhas).quantidade ELSE 0)
         + QuantidadeVendida(Tail(linhas), p, n)

\* C9: over sequences of sales, each product's stock is its initial stock
\* minus the quantities of all committed line items that reference it.
C9_EstoqueContabil ==
    \A p \in DOMAIN produtos :
        produtos[p].quantidade =
            ProdutosIniciais[p].quantidade
                - QuantidadeVendida(itens_venda, p, Len(vendas))

\* C9 witness: one sale was committed and another one was rolled back
C9_Witness ==
    /\ Len(vendas) = 1
    /\ Len(itens_venda) = 1
    /\ \E o1, o2 \in Operadores :
          /\ sessao[o1].resultado = "Erro ao registrar venda"
          /\ sessao[o2].resultado = "Venda registrada com sucesso!"
    /\ adicionados = 2

\* C10 as stated: only a committed sale lowers a product's stock.
C10_SoVendaDiminui ==
    [][\A p \in DOMAIN produtos :
         (p \in DOMAIN produtos' /\ produtos'[p].quantidade < produtos[p].quantidade)
            => \E o \in Operadores : VendaRegistrada(o)]_vars

\* C10 amended: a product's stock is lowered only by a committed sale holding
\* a line item for it, or by a confirmed atualizar_produto of that product,
\* which overwrites it with the quantity typed (not negative) or, left blank,
\* the quantity read when that run started.
C10_QuemDiminuiEstoque ==
    [][\A p \in DOMAIN produtos :
         (p \in DOMAIN produtos' /\ produtos'[p].quantidade < produtos[p].quantidade)
            =>
            \/ \E o \in Operadores :
                  /\ VendaRegistrada(o)
                  /\ QuantidadeNoCarrinho(sessao[o].itens, p) > 0
            \/ \E o \in Operadores :
                  /\ sessao[o].pc = "ap_confirmar"
                  /\ sessao[o].produto.id = p
                  /\ sessao'[o].pc = "menu"
                  /\ sessao'[o].resultado = "Produto atualizado com sucesso!"
                  /\ \/ produtos'[p].quantidade = sessao[o].produto.quantidade
                     \/ produtos'[p].quantidade >= 0]_vars

\* C10 witness: atualizar_produto lowered a stock no sale has touched
C10_Witness ==
    \E o \in Operadores, p \in DOMAIN produtos :
        /\ sessao[o].resultado = "Produto atualizado com sucesso!"
        /\ vendas = <<>>
        /\ produtos[p].quantidade < ProdutosIniciais[p].quantidade
        /\ operacoes = 1

\* operator o is inside registrar_venda
EmRegistro(s) == s.pc \in {"rv_cliente", "rv_produto", "rv_quantidade", "rv_confirmar"}

\* C11: every sale committed by registrar_venda is attributed to a seller that
\* exists and is active at the moment of the commit, also when another
\* operator ran atualizar_vendedor since the seller prompt.
C11_VendedorAtivoNoCommit ==
    [][\A o \in Operadores :
         VendaRegistrada(o) =>
            LET atribuicao == vendedor_vendas'[Len(vendedor_vendas')]
            IN  /\ atribuicao.id_venda = Len(vendas')
                /\ atribuicao.vendedor_matricula \in DOMAIN vendedores
                /\ vendedores[atribuicao.vendedor_matricula].ativo]_vars

\* C12: every item in a cart and every persisted line item has a strictly
\* positive quantity (a quantity of zero or less is never accepted).
C12_QuantidadePositiva ==
    /\ \A o \in Operadores : \A i \in 1..Len(sessao[o].itens) :
            sessao[o].itens[i].quantidade > 0
    /\ \A k \in 1..Len(itens_venda) : itens_venda[k].quantidade > 0

\* C13: a cart item carries the catalog price read when its product was
\* selected for that addition; items already in a cart and line items already
\* persisted never change, whatever happens to the catalog; and the commit
\* persists, for each cart item in order, the unit price the item carries.
C13_PrecoDaAdicao ==
    [][/\ SubSeq(itens_venda', 1, Len(itens_venda)) = itens_venda
       /\ \A o \in Operadores :
            /\ (sessao[o].pc = "rv_produto" /\ sessao'[o].pc = "rv_quantidade") =>
                    /\ sessao'[o].produto.id \in DOMAIN produtos
                    /\ sessao'[o].produto.preco = produtos[sessao'[o].produto.id].preco
            /\ (EmRegistro(sessao[o]) /\ EmRegistro(sessao'[o])) =>
                    /\ Len(sessao'[o].itens) >= Len(sessao[o].itens)
                    /\ SubSeq(sessao'[o].itens, 1, Len(sessao[o].itens)) = sessao[o].itens
            /\ (sessao[o].pc = "rv_quantidade"
                    /\ Len(sessao'[o].itens) = Len(sessao[o].itens) + 1) =>
                    LET item == sessao'[o].itens[Len(sessao'[o].itens)]
                    IN  /\ item.id_produto = sessao[o].produto.id
                        /\ item.preco_unitario = sessao[o].produto.preco
            /\ VendaRegistrada(o) =>
                    LET linhas == ItensDaVenda(itens_venda', Len(vendas'))
                    IN  /\ Len(linhas) = Len(sessao[o].itens)
                        /\ \A i \in 1..Len(linhas) :
                              /\ linhas[i].id_produto = sessao[o].itens[i].id_produto
                              /\ linhas[i].valor_unitario =
                                    sessao[o].itens[i].preco_unitario]_vars

\* C13 witness: one sale holds two line items of the same product with
\* different unit prices, the second one the catalog price of today
C13_Witness ==
    \E k1, k2 \in 1..Len(itens_venda) :
        /\ k1 < k2
        /\ itens_venda[k1].id_venda = itens_venda[k2].id_venda
        /\ itens_venda[k1].id_produto = itens_venda[k2].id_produto
        /\ itens_venda[k1].valor_unitario = ProdutosIniciais[itens_venda[k1].id_produto].preco
        /\ itens_venda[k2].valor_unitario # itens_venda[k1].valor_unitario
        /\ itens_venda[k2].id_produto \in DOMAIN produtos
        /\ itens_venda[k2].valor_unitario = produtos[itens_venda[k2].id_produto].preco

\* every table of the store and its clock are left as they are
TudoInalterado ==
    UNCHANGED <<produtos, clientes, vendedores, vendas, itens_venda,
                vendedor_vendas, relogio>>

\* C14: during cart building a product is selected only if its id resolves in
\* the store at that moment, and the cart grows only by one item whose
\* quantity does not exceed the product's stock as stored at that moment; an
\* attempt that is refused (the prompt is asked again) leaves the cart and the
\* store exactly as they were.
C14_AdicaoRecusada ==
    [][\A o \in Operadores :
         /\ (sessao[o].pc = "rv_produto" /\ sessao'[o].pc = "rv_quantidade") =>
                /\ sessao'[o].produto.id \in DOMAIN produtos
                /\ sessao'[o].itens = sessao[o].itens
         /\ (sessao[o].pc = "rv_quantidade" /\ EmRegistro(sessao'[o])
                /\ sessao'[o].itens # sessao[o].itens) =>
                \E item \in {sessao'[o].itens[Len(sessao'[o].itens)]} :
                    /\ sessao'[o].itens = Append(sessao[o].itens, item)
                    /\ item.id_produto = sessao[o].produto.id
                    /\ item.id_produto \in DOMAIN produtos
                    /\ item.quantidade <= produtos[item.id_produto].quantidade
         /\ (sessao[o].pc \in {"rv_produto", "rv_quantidade"}
                /\ sessao'[o].pc = sessao[o].pc /\ sessao'[o] # sessao[o]) =>
                /\ sessao'[o].aviso \in
                        {"Produto não encontrado!", "Quantidade indisponível em estoque!",
                         "Quantidade inválida! Deve ser um número inteiro positivo."}
                /\ sessao'[o].itens = sessao[o].itens
                /\ sessao'[o].produto = sessao[o].produto
                /\ TudoInalterado]_vars

\* C14 witness: one operator was refused a quantity above what the other's
\* commit left in stock, the other an id that does not resolve
C14_Witness ==
    \E o1, o2 \in Operadores :
        /\ sessao[o1].pc = "rv_quantidade"
        /\ sessao[o1].aviso = "Quantidade indisponível em estoque!"
        /\ sessao[o1].produto.id \in DOMAIN produtos
        /\ produtos[sessao[o1].produto.id].quantidade
                < ProdutosIniciais[sessao[o1].produto.id].quantidade
        /\ sessao[o1].itens = <<>>
        /\ sessao[o2].pc = "rv_produto"
        /\ sessao[o2].aviso = "Produto não encontrado!"

\* C15: every step of registrar_venda other than its committed transaction
\* leaves the store exactly as it was; in particular a run that ends at the
\* customer prompt, at the seller prompt, with an empty cart or with the
\* confirmation declined has written nothing.
C15_AbandonoSemEfeito ==
    [][\A o \in Operadores :
         (EmRegistro(sessao[o]) /\ sessao'[o] # sessao[o]) =>
            \/ TudoInalterado
            \/ /\ sessao[o].pc = "rv_confirmar"
               /\ sessao'[o].resultado = "Venda registrada com sucesso!"]_vars

\* C15 witness: a run whose cart held two items ended with the confirmation
\* declined and the store is as it was found
C15_Witness ==
    \E o \in Operadores :
        /\ sessao[o].resultado = "Venda cancelada!"
        /\ adicionados = 2
        /\ operacoes = 1
        /\ produtos = ProdutosIniciais
        /\ vendas = <<>> /\ itens_venda = <<>> /\ vendedor_vendas = <<>>

\* C16: every persisted sale has at least one line item, no cart reaches the
\* confirmation empty, and finishing the item entry with an empty cart ends
\* the run with nothing persisted.
C16_CarrinhoNaoVazio ==
    [][/\ \A i \in 1..Len(vendas') : Len(ItensDaVenda(itens_venda', i)) >= 1
       /\ \A o \in Operadores :
            /\ sessao'[o].pc = "rv_confirmar" => sessao'[o].itens # <<>>
            /\ (sessao[o].pc = "rv_produto" /\ sessao[o].itens = <<>>
                    /\ sessao'[o].pc \notin {"rv_produto", "rv_quantidade"}) =>
                    /\ sessao'[o].pc = "menu"
                    /\ sessao'[o].resultado =
                            "Nenhum item adicionado à venda. Operação cancelada."
                    /\ TudoInalterado]_vars

\* C16 witness: after one committed sale, a run that finished the item entry
\* with an empty cart was aborted and the store holds that one sale only
C16_Witness ==
    \E o \in Operadores :
        /\ sessao[o].resultado = "Nenhum item adicionado à venda. Operação cancelada."
        /\ Len(vendas) = 1
        /\ Len(itens_venda) = adicionados
        /\ adicionados >= 1

Resolvido(s) ==
    s.pc \in {"rv_produto", "rv_quantidade", "rv_confirmar"} /\ s.desconto_info.existe

ClientesComVenda == {vendas[i].cliente_matricula : i \in 1..Len(vendas)}

\* the products that persisted line items reference
ProdutosEmVenda == {itens_venda[k].id_produto : k \in 1..Len(itens_venda)}

\* C19: a customer that is referenced by at least one sale is never deleted,
\* by any of the customer removals the program offers.
C19_ClienteComVendaFica ==
    [][\A m \in DOMAIN clientes :
         m \in ClientesComVenda => m \in DOMAIN clientes']_vars

C21_RemoverUltimo ==
    \A o \in Operadores :
        (sessao[o].pc = "rv_produto" /\ sessao[o].itens # <<>>) =>
            ENABLED (/\ NextCaixa
                     /\ EmRegistro(sessao'[o])
                     /\ sessao'[o].itens =
                            SubSeq(sessao[o].itens, 1, Len(sessao[o].itens) - 1))

\* C22: after any sequence of criar_cliente and atualizar_cliente runs no two
\* customers share an email.
C22_EmailUnico ==
    \A m1, m2 \in DOMAIN clientes :
        clientes[m1].email = clientes[m2].email => m1 = m2

\* C23: after any sequence of criar_produto and atualizar_produto runs no two
\* products have names that are equal when letter case is ignored.
C23_NomeUnico ==
    \A id1, id2 \in DOMAIN produtos :
        Minusculas(produtos[id1].nome) = Minusculas(produtos[id2].nome) => id1 = id2

\* operator o ends autorizar_venda with its success message in this step
AutorizouAgora(o) ==
    /\ sessao[o].pc = "av_confirmar"
    /\ sessao'[o].pc = "menu"
    /\ sessao'[o].resultado = "Venda autorizada com sucesso!"

\* C24: a successful autorizar_venda changes only the sale's status and the
\* authorization timestamp of its attribution row: the stock, the sale's other
\* fields, the line items, every other sale and every other attribution row
\* are as before.
C24_SoStatusECarimbo ==
    [][\A o \in Operadores :
          AutorizouAgora(o) =>
              LET v == sessao[o].venda_id
              IN  /\ produtos' = produtos
                  /\ itens_venda' = itens_venda
                  /\ DOMAIN vendas' = DOMAIN vendas
                  /\ \A i \in DOMAIN vendas :
                        IF i = v
                        THEN /\ vendas'[i].status = "AUTORIZADA"
                             /\ [vendas'[i] EXCEPT !.status = vendas[i].status] = vendas[i]
                        ELSE vendas'[i] = vendas[i]
                  /\ DOMAIN vendedor_vendas' = DOMAIN vendedor_vendas
                  /\ \A k \in DOMAIN vendedor_vendas :
                        IF vendedor_vendas[k].id_venda = v
                        THEN [vendedor_vendas'[k] EXCEPT !.data_autorizacao =
                                    vendedor_vendas[k].data_autorizacao]
                                = vendedor_vendas[k]
                        ELSE vendedor_vendas'[k] = vendedor_vendas[k]]_vars

\* C24 witness: of two committed sales, with discount and line items, one was
\* authorized and the other one is still pending
C24_Witness ==
    /\ Len(vendas) = 2
    /\ \E o \in Operadores : sessao[o].resultado = "Venda autorizada com sucesso!"
    /\ \E i, j \in DOMAIN vendas :
          /\ vendas[i].status = "AUTORIZADA"
          /\ vendas[i].desconto_aplicado
          /\ vendas[j].status = "PENDENTE"
    /\ Len(itens_venda) = 2

\* C25: in every committed state the attribution row of a sale has an
\* authorization timestamp if and only if the sale's status is AUTORIZADA.
C25_CarimboSseAutorizada ==
    \A k \in DOMAIN vendedor_vendas :
        LET v == vendedor_vendas[k].id_venda
        IN  v \in DOMAIN vendas =>
                (vendedor_vendas[k].data_autorizacao # NULL
                    <=> vendas[v].status = "AUTORIZADA")

\* C25 witness: an authorization of the sale was rolled back, and a later one
\* has authorized and stamped it
C25_Witness ==
    /\ \E k \in DOMAIN vendedor_vendas :
          /\ vendedor_vendas[k].data_autorizacao # NULL
          /\ vendas[vendedor_vendas[k].id_venda].status = "AUTORIZADA"
    /\ \E o \in Operadores : sessao[o].resultado = "Erro ao autorizar venda"
    /\ \E o \in Operadores : sessao[o].resultado = "Venda autorizada com sucesso!"

\* C26: once committed, a sale's customer, total, payment method and discount
\* fields and its line items are never modified or deleted: a step leaves
\* every committed sale as it was but for its status, every committed line
\* item as it was, and every attribution row as it was but for its
\* authorization timestamp.
C26_VendaImutavel ==
    [][/\ Len(vendas') >= Len(vendas)
       /\ \A i \in DOMAIN vendas :
             [vendas'[i] EXCEPT !.status = vendas[i].status] = vendas[i]
       /\ Len(itens_venda') >= Len(itens_venda)
       /\ \A k \in DOMAIN itens_venda : itens_venda'[k] = itens_venda[k]
       /\ Len(vendedor_vendas') >= Len(vendedor_vendas)
       /\ \A k \in DOMAIN vendedor_vendas :
             [vendedor_vendas'[k] EXCEPT !.data_autorizacao =
                    vendedor_vendas[k].data_autorizacao] = vendedor_vendas[k]]_vars

\* C26 witness: after a sale of product 1 was committed, the product's price
\* was changed and the sale was authorized
C26_Witness ==
    /\ Len(vendas) = 1
    /\ vendas[1].status = "AUTORIZADA"
    /\ \E k \in DOMAIN itens_venda :
          /\ itens_venda[k].id_produto = 1
          /\ itens_venda[k].valor_unitario = ProdutosIniciais[1].preco
    /\ produtos[1].preco # ProdutosIniciais[1].preco

\* C27: in every reachable state each persisted sale has exactly one
\* seller-sale attribution row.
C27_UmaAtribuicaoPorVenda ==
    \A i \in DOMAIN vendas : Len(AtribuicoesDaVenda(vendedor_vendas, i)) = 1

\* C27 witness: a sale is persisted and authorized, and deletar_vendedor has
\* removed a seller
C27_Witness ==
    /\ \E i \in DOMAIN vendas : vendas[i].status = "AUTORIZADA"
    /\ \E o \in Operadores : sessao[o].resultado = "Vendedor removido com sucesso!"
    /\ DOMAIN vendedores # DOMAIN VendedoresIniciais

\* C28: for a customer with a discount, the summary shown before the
\* confirmation displays the amounts registrar_venda persists when the
\* operator confirms: the subtotal shown is the sum of quantity * unit price,
\* the discount shown is the persisted discount (10% of that subtotal), and
\* the final total shown is the persisted valor_total.
C28_ResumoIgualAoPersistido ==
    [][\A o \in Operadores :
          (VendaRegistrada(o) /\ vendas'[Len(vendas')].desconto_aplicado) =>
              LET venda == vendas'[Len(vendas')]
                  resumo == sessao[o].resumo
              IN  /\ resumo.subtotal = DuasCasas(Subtotal(sessao[o].itens, Len(sessao[o].itens)))
                  /\ resumo.desconto = DuasCasas(venda.valor_desconto)
                  /\ resumo.total = DuasCasas(venda.valor_total)]_vars

\* C29: an atualizar_produto run whose quantity field is left blank leaves
\* the product's stock unchanged, also when a sale of the product was committed
\* by another operator after the run read the product (every update of
\* SpecEmBranco leaves the quantity blank).
C29_EmBrancoMantemEstoque ==
    [][\A o \in Operadores :
          (/\ sessao[o].pc = "ap_confirmar"
           /\ sessao'[o].pc = "menu"
           /\ sessao'[o].resultado = "Produto atualizado com sucesso!"
           /\ sessao[o].produto.id \in DOMAIN produtos)
          => produtos'[sessao[o].produto.id].quantidade
                = produtos[sessao[o].produto.id].quantidade]_vars

\* C30: every persisted sale line item references a product that exists, in
\* every interleaving of registrar_venda with deletar_produto.
C30_LinhaComProduto ==
    \A k \in DOMAIN itens_venda : itens_venda[k].id_produto \in DOMAIN produtos

====
